---------------------------- MODULE Spec2Model ----------------------------
(***************************************************************************)
(* State-machine model of prism: the grid classifier (VolumeCore::         *)
(* create_grid), the dense array, the Sampler and the packing Solver.      *)
(*                                                                         *)
(* f32 values are modelled in fixed point: the integer x stands for the    *)
(* real x / One.  Products and quotients are rounded to the nearest        *)
(* representable value, as f32 arithmetic rounds.  NaN and +infinity are   *)
(* two reserved values outside the range of every finite quantity.         *)
(* A vector Vector<T, N> is a sequence of length N.                        *)
(***************************************************************************)
EXTENDS Integers, Sequences, FiniteSets, TLC

---------------------------------------------------------------------------
(* f32 arithmetic                                                          *)

One == 10 * 10 * 10

NaN == 0 - 1000000007

Inf == 1000000000

IsNaN(x) == x = NaN

Abs(x) == IF x < 0 THEN 0 - x ELSE x

Sign(x) == IF x < 0 THEN 0 - 1 ELSE 1

\* a / b for b > 0, rounded to nearest
RDiv(a, b) == Sign(a) * ((2 * Abs(a) + b) \div (2 * b))

\* neither NaN nor an infinity (NaN lies below -Inf in this encoding)
IsFinite(x) == x > 0 - Inf /\ x < Inf

\* an infinity of either sign
IsInf(x) == ~IsNaN(x) /\ (x >= Inf \/ x <= 0 - Inf)

\* a result beyond the finite range is the infinity of its sign
Saturate(x) == IF x >= Inf THEN Inf ELSE IF x <= 0 - Inf THEN 0 - Inf ELSE x

\* IEEE addition: inf + (-inf) is NaN
FAdd(a, b) ==
    IF IsFinite(a) /\ IsFinite(b) THEN Saturate(a + b)
    ELSE IF IsNaN(a) \/ IsNaN(b) THEN NaN
    ELSE IF IsInf(a) /\ IsInf(b) THEN (IF Sign(a) = Sign(b) THEN Saturate(a) ELSE NaN)
    ELSE IF IsInf(a) THEN Saturate(a)
    ELSE IF IsInf(b) THEN Saturate(b)
    ELSE Saturate(a + b)

FSub(a, b) ==
    IF IsFinite(a) /\ IsFinite(b) THEN Saturate(a - b)
    ELSE IF IsNaN(b) THEN NaN
    ELSE FAdd(a, 0 - b)

\* IEEE multiplication: inf * 0 is NaN
FMul(a, b) ==
    IF IsFinite(a) /\ IsFinite(b) THEN RDiv(a * b, One)
    ELSE IF IsNaN(a) \/ IsNaN(b) THEN NaN
    ELSE IF IsInf(a) \/ IsInf(b)
    THEN (IF a = 0 \/ b = 0 THEN NaN ELSE Sign(a) * Sign(b) * Inf)
    ELSE RDiv(a * b, One)

\* IEEE division: 0/0 and inf/inf are NaN, x/0 is an infinity
FDiv(a, b) ==
    IF IsFinite(a) /\ IsFinite(b) /\ b # 0 THEN Sign(b) * RDiv(a * One, Abs(b))
    ELSE IF IsNaN(a) \/ IsNaN(b) THEN NaN
    ELSE IF b = 0 THEN (IF a = 0 THEN NaN ELSE Sign(a) * Inf)
    ELSE IF IsInf(a) THEN (IF IsInf(b) THEN NaN ELSE Sign(a) * Sign(b) * Inf)
    ELSE IF IsInf(b) THEN 0
    ELSE Sign(b) * RDiv(a * One, Abs(b))

\* a > b on f32: false when either side is NaN
FGt(a, b) == ~IsNaN(a) /\ ~IsNaN(b) /\ a > b

FLe(a, b) == ~IsNaN(a) /\ ~IsNaN(b) /\ a <= b

\* f32::max: a NaN operand is ignored
FMax(a, b) == IF IsNaN(a) THEN b ELSE IF IsNaN(b) THEN a ELSE IF a >= b THEN a ELSE b

\* let v = e in G(v): e is evaluated once, and G sees its value
Bind(e, G(_)) == CHOOSE r \in {G(v) : v \in {e}} : TRUE

RECURSIVE SqrtNewton(_, _)
\* Newton's iteration from a guess x >= sqrt(n) > 0, down to floor(sqrt(n))
SqrtNewton(n, x) ==
    Bind((x + n \div x) \div 2, LAMBDA y : IF y >= x THEN x ELSE SqrtNewton(n, y))

\* square root of a non-negative integer, rounded to nearest; guess >= sqrt(n)
ISqrtFrom(n, guess) ==
    IF n = 0 THEN 0
    ELSE Bind(SqrtNewton(n, guess), LAMBDA s : IF n - s * s > s THEN s + 1 ELSE s)

I32Max == 2147483647

I32Min == (0 - I32Max) - 1

\* (x / c).floor() as i32; the cast sends NaN to 0 and saturates an infinity
FloorDiv(x, c) ==
    IF IsNaN(x) THEN 0
    ELSE IF IsInf(x) /\ c # 0 THEN (IF Sign(x) = Sign(c) THEN I32Max ELSE I32Min)
    ELSE IF c > 0 THEN x \div c
    ELSE IF c < 0 THEN (0 - x) \div (0 - c)
    ELSE IF x > 0 THEN I32Max ELSE IF x < 0 THEN I32Min ELSE 0

\* (x / c).ceil() as i32
CeilDiv(x, c) ==
    IF IsNaN(x) THEN 0
    ELSE IF IsInf(x) /\ c # 0 THEN (IF Sign(x) = Sign(c) THEN I32Max ELSE I32Min)
    ELSE IF c > 0 THEN 0 - ((0 - x) \div c)
    ELSE IF c < 0 THEN 0 - (x \div (0 - c))
    ELSE IF x > 0 THEN I32Max ELSE IF x < 0 THEN I32Min ELSE 0

\* a - b on i32 overflows (a panic in a checked build; the wrapped value is
\* negative when the true difference exceeds I32Max)
SubOverflows(a, b) ==
    \/ b < 0 /\ a > I32Max + b
    \/ b > 0 /\ a < I32Min + b

\* a + b on i32 overflows
AddOverflows(a, b) ==
    \/ b > 0 /\ a > I32Max - b
    \/ b < 0 /\ a < I32Min - b

\* a + b on i32 in a build without overflow checks: the sum modulo 2^32
WrappingAdd(a, b) ==
    IF b > 0 /\ a > I32Max - b THEN I32Min + ((b - 1) - (I32Max - a))
    ELSE IF b < 0 /\ a < I32Min - b THEN I32Max - ((I32Min - a) - (b + 1))
    ELSE a + b

---------------------------------------------------------------------------
(* Vectors                                                                 *)

Dim(v) == Len(v)

Repeat(n, x) == [i \in 1..n |-> x]

HasNaN(v) == \E i \in 1..Len(v) : IsNaN(v[i])

RECURSIVE Components(_, _)
\* the first n components of f, each computed once, as a tuple
Components(f, n) == IF n = 0 THEN <<>> ELSE Append(Components(f, n - 1), f[n])

VAdd(a, b) ==
    Bind(<<a, b>>, LAMBDA t :
        Components([i \in 1..Len(t[1]) |-> FAdd(t[1][i], t[2][i])], Len(t[1])))

VSub(a, b) ==
    Bind(<<a, b>>, LAMBDA t :
        Components([i \in 1..Len(t[1]) |-> FSub(t[1][i], t[2][i])], Len(t[1])))

\* vector * scalar on f32
VScale(a, s) ==
    Bind(<<a, s>>, LAMBDA t :
        Components([i \in 1..Len(t[1]) |-> FMul(t[1][i], t[2])], Len(t[1])))

\* vector / scalar on f32
VDivS(a, s) ==
    Bind(<<a, s>>, LAMBDA t :
        Components([i \in 1..Len(t[1]) |-> FDiv(t[1][i], t[2])], Len(t[1])))

\* integer vectors (cell coordinates)
IAdd(a, b) == Components([i \in 1..Len(a) |-> WrappingAdd(a[i], b[i])], Len(a))

ISub(a, b) == [i \in 1..Len(a) |-> a[i] - b[i]]

RECURSIVE SumSq(_, _)
SumSq(v, i) == IF i = 0 THEN 0 ELSE v[i] * v[i] + SumSq(v, i - 1)

NormSquared(v) == SumSq(v, Len(v))

RECURSIVE SumAbs(_, _)
SumAbs(v, i) == IF i = 0 THEN 0 ELSE Abs(v[i]) + SumAbs(v, i - 1)

\* the Euclidean norm; the sum of the magnitudes bounds it from above
Norm(v) ==
    Bind(Components(v, Len(v)), LAMBDA w :
        IF HasNaN(w) THEN NaN
        ELSE IF \E i \in 1..Len(w) : IsInf(w[i]) THEN Inf
        ELSE Bind(NormSquared(w), LAMBDA n : ISqrtFrom(n, SumAbs(w, Len(w)))))

RECURSIVE Product(_, _)
Product(v, i) == IF i = 0 THEN 1 ELSE v[i] * Product(v, i - 1)

\* all vectors of length n over the set S
Vectors(n, S) == [1..n -> S]

---------------------------------------------------------------------------
(* Region variants implementing VolumeCore: Cuboid, Ball and the           *)
(* PaddedVolume wrapper.  A region is a record; `padded` tells whether it  *)
(* is wrapped by PaddedVolume with the constant `offset`.                  *)

Cuboid(mn, mx) ==
    [kind |-> "cuboid", min |-> mn, max |-> mx, center |-> mn, radius |-> 0,
     padded |-> FALSE, offset |-> 0]

Ball(c, r) ==
    [kind |-> "ball", min |-> c, max |-> c, center |-> c, radius |-> r,
     padded |-> FALSE, offset |-> 0]

\* Volume::pad
pad(v, o) == [v EXCEPT !.padded = TRUE, !.offset = o]

Max2(a, b) == IF a >= b THEN a ELSE b

Min2(a, b) == IF a <= b THEN a ELSE b

RECURSIVE MaxOver(_, _)
MaxOver(q, i) == IF i = 1 THEN q[1] ELSE Max2(q[i], MaxOver(q, i - 1))

\* first index at which q takes its largest value
ArgMax(q) == CHOOSE i \in 1..Len(q) :
    /\ \A j \in 1..Len(q) : q[j] <= q[i]
    /\ \A j \in 1..(i - 1) : q[j] < q[i]

\* per axis: how far p lies beyond the nearer face (negative inside)
CuboidExcess(v, p) ==
    [i \in 1..Len(p) |-> Max2(FSub(v.min[i], p[i]), FSub(p[i], v.max[i]))]

CuboidDistance(v, p) ==
    LET q == CuboidExcess(v, p)
        out == [i \in 1..Len(p) |-> Max2(q[i], 0)]
    IN IF \A i \in 1..Len(p) : q[i] <= 0 THEN MaxOver(q, Len(q)) ELSE Norm(out)

\* unit vector (scaled by One) towards increasing distance
CuboidGradient(v, p) ==
    LET q == CuboidExcess(v, p)
        side == [i \in 1..Len(p) |-> IF p[i] - v.max[i] >= v.min[i] - p[i] THEN 1 ELSE 0 - 1]
        out == [i \in 1..Len(p) |-> side[i] * Max2(q[i], 0)]
    IN IF \A i \in 1..Len(p) : q[i] <= 0
       THEN [i \in 1..Len(p) |-> IF i = ArgMax(q) THEN side[i] * One ELSE 0]
       ELSE VDivS(out, Norm(out))

CuboidContains(v, p) ==
    /\ \A i \in 1..Len(p) : ~IsNaN(p[i]) /\ p[i] >= v.min[i]
    /\ \A i \in 1..Len(p) : ~IsNaN(p[i]) /\ p[i] <= v.max[i]

BallDistance(v, p) == FSub(Norm(VSub(p, v.center)), v.radius)

BallGradient(v, p) ==
    LET delta == VSub(p, v.center)
    IN IF Norm(delta) = 0 THEN Repeat(Len(p), 0) ELSE VDivS(delta, Norm(delta))

BallContains(v, p) ==
    ~HasNaN(p) /\ NormSquared(VSub(p, v.center)) <= v.radius * v.radius

\* the wrapped field of a PaddedVolume, or the region itself
InnerDistance(v, p) ==
    IF HasNaN(p) THEN NaN
    ELSE IF v.kind = "cuboid" THEN CuboidDistance(v, p) ELSE BallDistance(v, p)

distance(v, p) ==
    IF v.padded THEN FAdd(InnerDistance(v, p), v.offset) ELSE InnerDistance(v, p)

gradient(v, p) ==
    IF HasNaN(p) THEN Repeat(Len(p), NaN)
    ELSE IF v.kind = "cuboid" THEN CuboidGradient(v, p) ELSE BallGradient(v, p)

contains(v, p) ==
    IF v.padded THEN FLe(distance(v, p), 0)
    ELSE IF v.kind = "cuboid" THEN CuboidContains(v, p) ELSE BallContains(v, p)

InnerMin(v) ==
    IF v.kind = "cuboid" THEN v.min ELSE [i \in 1..Len(v.center) |-> v.center[i] - v.radius]

InnerMax(v) ==
    IF v.kind = "cuboid" THEN v.max ELSE [i \in 1..Len(v.center) |-> v.center[i] + v.radius]

min_bound(v) ==
    IF v.padded THEN [i \in 1..Len(v.min) |-> InnerMin(v)[i] + v.offset] ELSE InnerMin(v)

max_bound(v) ==
    IF v.padded THEN [i \in 1..Len(v.max) |-> InnerMax(v)[i] - v.offset] ELSE InnerMax(v)

---------------------------------------------------------------------------
(* polygon.rs: PolygonArea, with distance_to_line of utils.rs               *)

\* a < b on f32
FLt(a, b) == FGt(b, a)

\* f32::min: a NaN operand is ignored
FMin(a, b) == IF IsNaN(a) THEN b ELSE IF IsNaN(b) THEN a ELSE IF a <= b THEN a ELSE b

\* f32::MAX, the largest finite value
F32Max == Inf - 1

RECURSIVE DotUpTo(_, _, _)
DotUpTo(a, b, i) == IF i = 0 THEN 0 ELSE a[i] * b[i] + DotUpTo(a, b, i - 1)

\* a.dot(&b) on f32
Dot(a, b) == IF HasNaN(a) \/ HasNaN(b) THEN NaN ELSE RDiv(DotUpTo(a, b, Len(a)), One)

\* x.clamp(0.0, 1.0); a NaN stays a NaN
Clamp01(x) == IF IsNaN(x) THEN NaN ELSE IF x < 0 THEN 0 ELSE IF x > One THEN One ELSE x

\* project_line: the point of the segment a..b nearest to x
project_line(a, b, x) ==
    Bind(VSub(b, a), LAMBDA c :
    Bind(Clamp01(FDiv(Dot(VSub(x, a), c), Dot(c, c))), LAMBDA proj :
        VAdd(a, VScale(c, proj))))

distance_to_line(a, b, x) == Norm(VSub(x, project_line(a, b, x)))

RECURSIVE FoldInf(_, _, _)
\* the fold of Vector::inf over the first k vertices, on axis i
FoldInf(polygon, i, k) ==
    IF k = 0 THEN Inf ELSE Min2(polygon[k][i], FoldInf(polygon, i, k - 1))

RECURSIVE FoldSup(_, _, _)
FoldSup(polygon, i, k) ==
    IF k = 0 THEN 0 - Inf ELSE Max2(polygon[k][i], FoldSup(polygon, i, k - 1))

\* PolygonArea::new
PolygonAreaNew == [polygons |-> <<>>, min |-> <<Inf, Inf>>, max |-> <<0 - Inf, 0 - Inf>>]

\* PolygonArea::add_polygon
add_polygon(area, polygon) ==
    [polygons |-> Append(area.polygons, polygon),
     min |-> <<Min2(area.min[1], FoldInf(polygon, 1, Len(polygon))),
               Min2(area.min[2], FoldInf(polygon, 2, Len(polygon)))>>,
     max |-> <<Max2(area.max[1], FoldSup(polygon, 1, Len(polygon))),
               Max2(area.max[2], FoldSup(polygon, 2, Len(polygon)))>>]

\* PolygonArea::add_rect
add_rect(area, half_size, center) ==
    add_polygon(area, << VSub(center, half_size),
                         VAdd(center, <<half_size[1], 0 - half_size[2]>>),
                         VAdd(center, half_size),
                         VAdd(center, <<0 - half_size[1], half_size[2]>>) >>)

\* the vertex before polygon[k] in the loop: `b`, which starts at polygon.last()
Previous(polygon, k) == IF k = 1 THEN polygon[Len(polygon)] ELSE polygon[k - 1]

\* the test that toggles `interior` for the edge b..a
Crosses(a, b, point) ==
    /\ FGt(a[2], point[2]) # FGt(b[2], point[2])
    /\ FLt(point[1],
           FAdd(FDiv(FMul(FSub(b[1], a[1]), FSub(point[2], a[2])), FSub(b[2], a[2])), a[1]))

\* the edges, as pairs (polygon, vertex), at which `interior` is toggled
Crossings(area, point) ==
    { e \in UNION { {<<j, k>> : k \in 1..Len(area.polygons[j])} : j \in 1..Len(area.polygons) } :
        Crosses(area.polygons[e[1]][e[2]], Previous(area.polygons[e[1]], e[2]), point) }

\* PolygonArea::contains
PolygonContains(area, point) ==
    IF \/ \E i \in 1..2 : FLt(point[i], area.min[i])
       \/ \E i \in 1..2 : FGt(point[i], area.max[i])
    THEN FALSE
    ELSE Cardinality(Crossings(area, point)) % 2 = 1

RECURSIVE EdgeMin(_, _, _)
\* dist after the first k edges of one polygon, starting from d
EdgeMin(polygon, point, k) ==
    IF k = 0 THEN F32Max
    ELSE FMin(EdgeMin(polygon, point, k - 1),
              distance_to_line(polygon[k], Previous(polygon, k), point))

RECURSIVE AreaMin(_, _, _)
\* dist after the first j polygons
AreaMin(area, point, j) ==
    IF j = 0 THEN F32Max
    ELSE FMin(AreaMin(area, point, j - 1),
              EdgeMin(area.polygons[j], point, Len(area.polygons[j])))

\* PolygonArea::distance
PolygonDistance(area, point) ==
    Bind(AreaMin(area, point, Len(area.polygons)), LAMBDA dist :
        IF PolygonContains(area, point) THEN 0 - dist ELSE dist)

---------------------------------------------------------------------------
(* utils.rs: mixed-radix addressing                                        *)

\* from_linear: axis 1 varies fastest; every shape[i] is > 0 where it is used
from_linear(index, shape) ==
    [i \in 1..Len(shape) |-> (index \div Product(shape, i - 1)) % shape[i]]

RECURSIVE ToLinearFold(_, _, _)
\* zip_fold over (step, res): the pair after the first i axes
ToLinearFold(index, shape, i) ==
    IF i = 0 THEN <<1, 0>>
    ELSE Bind(ToLinearFold(index, shape, i - 1), LAMBDA acc :
             <<acc[1] * shape[i], acc[2] + acc[1] * index[i]>>)

to_linear(index, shape) == ToLinearFold(index, shape, Len(shape))[2]

---------------------------------------------------------------------------
(* base.rs: Array, VolumeGrid and create_grid                              *)

SQRT_2 == 1414

Panic == "panic"

\* Array::from_fn: data[k] is f(from_linear(k - 1, shape))
ArrayFromFn(shape, f(_)) ==
    [shape |-> shape,
     data |-> [k \in 1..Product(shape, Len(shape)) |-> f(from_linear(k - 1, shape))]]

\* Array::contains
\* a bounds check on the linear index alone
ArrayContainsLinear(arr, index) ==
    to_linear(index, arr.shape) < Product(arr.shape, Len(arr.shape))

ArrayContains(arr, index) == \A i \in 1..Len(index) : index[i] < arr.shape[i]

\* &self.data[k]: the slice's own bounds check
DataGet(data, k) == IF k >= 0 /\ k < Len(data) THEN data[k + 1] ELSE Panic

\* Index<Vector<u32, N>> for Array
ArrayIndex(arr, index) ==
    IF ~ArrayContains(arr, index) THEN Panic
    ELSE DataGet(arr.data, to_linear(index, arr.shape))

\* try_cast::<u32>() is Some
TryCastU32(v) == \A i \in 1..Len(v) : v[i] >= 0

\* the centre of cell pos
CellCenter(pos, cell_size) == [i \in 1..Len(pos) |-> FMul(pos[i] * One + One \div 2, cell_size)]

\* the match with the half-open arm -1.0..1.0 for Border
ClassifyHalfOpen(v, cell_size, pos) ==
    LET dist == FDiv(FMul(distance(v, CellCenter(pos, cell_size)), SQRT_2), cell_size)
    IN IF FGt(0 - One, dist) THEN "Inside"
       ELSE IF FLe(0 - One, dist) /\ FLt(dist, One) THEN "Border"
       ELSE "Outside"

\* the match on the scaled distance in create_grid
Classify(v, cell_size, pos) ==
    LET dist == FDiv(FMul(distance(v, CellCenter(pos, cell_size)), SQRT_2), cell_size)
    IN IF FGt(0 - One, dist) THEN "Inside"
       ELSE IF FLe(0 - One, dist) /\ FLe(dist, One) THEN "Border"
       ELSE "Outside"

PanicGrid(v, cell_size) ==
    [status |-> Panic, volume |-> v, cell_size |-> cell_size, offset |-> <<>>,
     cells |-> [shape |-> <<>>, data |-> <<>>], inside_cells |-> <<>>, border_cells |-> <<>>]

create_grid(v, cell_size) ==
    LET n == Len(min_bound(v))
        offset == [i \in 1..n |-> FloorDiv(min_bound(v)[i], cell_size)]
        top == [i \in 1..n |-> CeilDiv(max_bound(v)[i], cell_size)]
    IN IF \E i \in 1..n : SubOverflows(top[i], offset[i]) THEN PanicGrid(v, cell_size)
       ELSE LET size == ISub(top, offset)
            IN IF ~TryCastU32(size) THEN PanicGrid(v, cell_size)
               ELSE LET Ty(pos) == Classify(v, cell_size, IAdd(pos, offset))
                        cells == ArrayFromFn(size, Ty)
                        all == [k \in 1..Len(cells.data) |-> IAdd(from_linear(k - 1, size), offset)]
                        IsInside(pos) == Classify(v, cell_size, pos) = "Inside"
                        IsBorder(pos) == Classify(v, cell_size, pos) = "Border"
                    IN [status |-> "ok", volume |-> v, cell_size |-> cell_size,
                        offset |-> offset, cells |-> cells,
                        inside_cells |-> SelectSeq(all, IsInside),
                        border_cells |-> SelectSeq(all, IsBorder)]

\* the cell of a cast to i32 without the floor: the quotient truncated towards zero
containing_cell_truncated(g, point) ==
    Components([i \in 1..Len(point) |->
                   Sign(point[i]) * FloorDiv(Abs(point[i]), g.cell_size)], Len(point))

\* VolumeGrid::containing_cell
containing_cell(g, point) ==
    Components([i \in 1..Len(point) |-> FloorDiv(point[i], g.cell_size)], Len(point))

\* Index<Vector<i32, N>> for VolumeGrid
\* (an overflowing index - offset panics in a checked build and otherwise
\* wraps to a value no allocated shape contains)
GridIndexCell(g, index) ==
    IF \E i \in 1..Len(index) : SubOverflows(index[i], g.offset[i]) THEN Panic
    ELSE LET rel == ISub(index, g.offset)
         IN IF ~TryCastU32(rel) THEN Panic ELSE ArrayIndex(g.cells, rel)

\* Index<Vector<f32, N>> for VolumeGrid
GridIndexPoint(g, point) == GridIndexCell(g, containing_cell(g, point))

\* Sampler::contains
SamplerContains(g, point) ==
    LET c == GridIndexPoint(g, point)
    IN IF c = Panic THEN Panic
       ELSE IF c = "Inside" THEN "true"
       ELSE IF c = "Outside" THEN "false"
       ELSE IF contains(g.volume, point) THEN "true" ELSE "false"

---------------------------------------------------------------------------
(* utils.rs: foreach_grid_in_rect                                          *)

\* the points handed to f when the phase is taken with the remainder % of Rust,
\* which has the sign of the dividend
foreach_grid_in_rect_rem(offset, size, rect_offset, rect_size) ==
    LET n == Len(size)
        off == [i \in 1..n |->
                   Sign(offset[i] - rect_offset[i]) * (Abs(offset[i] - rect_offset[i]) % size[i])]
        shape == [i \in 1..n |-> Max2(0, CeilDiv(rect_size[i] - off[i], size[i]))]
    IN [k \in 1..Product(shape, n) |->
           [i \in 1..n |-> (rect_offset[i] + off[i]) + from_linear(k - 1, shape)[i] * size[i]]]

\* the points handed to f, in call order
foreach_grid_in_rect(offset, size, rect_offset, rect_size) ==
    LET n == Len(size)
        off == [i \in 1..n |-> (offset[i] - rect_offset[i]) % size[i]]
        shape == [i \in 1..n |-> Max2(0, CeilDiv(rect_size[i] - off[i], size[i]))]
    IN [k \in 1..Product(shape, n) |->
           [i \in 1..n |-> (rect_offset[i] + off[i]) + from_linear(k - 1, shape)[i] * size[i]]]

---------------------------------------------------------------------------
(* State                                                                   *)

VARIABLES
    volume,                 \* the VolumeGrid held by the Sampler, then by the Solver
    gen,                    \* the Sampler call in progress
    emitted,                \* the points the last Sampler step returned or passed to f
    looked,                 \* the grid lookup made last and its outcome
    points,                 \* Solver::points (before Solver::new: the caller's Vec)
    point_grid,             \* Solver::point_grid, the spatial hash
    radius,                 \* Solver::radius
    max_penetration,        \* Solver::max_penetration
    boundary_penetration,   \* Solver::boundary_penetration
    pc,                     \* where the Solver is: "none", "idle", or inside solve
    iters,                  \* solve's local iters
    max_iters,              \* solve's argument
    cutoff,                 \* solve's argument
    ret,                    \* the value the last solve returned, -1 before
    calls,                  \* the step calls made so far by the solve in progress
    ncalls,                 \* how many Solver calls the caller has made
    stepped,                \* which step kinds have run since Solver::new, and the last
    probe                   \* the last evaluation of a region at a point, by the caller

gridVars == <<volume, gen, emitted, looked>>

solverVars == <<points, point_grid, radius, max_penetration, boundary_penetration,
                pc, iters, max_iters, cutoff, ret, calls, ncalls, stepped>>

vars == <<probe, volume, gen, emitted, looked, points, point_grid, radius, max_penetration,
          boundary_penetration, pc, iters, max_iters, cutoff, ret, calls, ncalls, stepped>>

NoGrid ==
    [status |-> "none", volume |-> Cuboid(<<>>, <<>>), cell_size |-> 0, offset |-> <<>>,
     cells |-> [shape |-> <<>>, data |-> <<>>], inside_cells |-> <<>>, border_cells |-> <<>>]

GenIdle ==
    [op |-> "none", density |-> 0, phase |-> "inside", idx |-> 0, left |-> 0,
     collect |-> FALSE, cell |-> 0 - 1, first |-> 0 - 1, args |-> <<>>]

\* no Sampler call in progress; whether the caller collects the points is kept
GenDone == [GenIdle EXCEPT !.collect = gen.collect]

NoLookup == [by |-> "none", point |-> <<>>, cell |-> <<>>, result |-> "none"]

NoProbe == [kind |-> "none", region |-> <<>>, point |-> <<>>, contains |-> FALSE, distance |-> 0]

Init ==
    /\ volume = NoGrid
    /\ gen = GenIdle
    /\ emitted = <<>>
    /\ looked = NoLookup
    /\ points = <<>>
    /\ point_grid = <<>>
    /\ radius = 0
    /\ max_penetration = 0
    /\ boundary_penetration = 0
    /\ pc = "none"
    /\ iters = 0
    /\ max_iters = 0
    /\ cutoff = 0
    /\ ret = 0 - 1
    /\ calls = <<>>
    /\ ncalls = 0
    /\ stepped = [collisions |-> FALSE, boundary |-> FALSE, last |-> "none"]
    /\ probe = NoProbe

\* a panic unwinds the caller: nothing runs after it
Alive == volume.status = "ok" /\ gen.op # Panic /\ looked.result # Panic /\ pc # Panic

---------------------------------------------------------------------------
(* Grid construction and lookup                                            *)

\* Sampler::with_rng / VolumeCore::create_grid on one of the inputs
CreateGridFrom(inputs) ==
    /\ volume.status = "none"
    /\ \E in \in inputs : volume' = create_grid(in[1], in[2])
    /\ UNCHANGED <<probe, gen, emitted, looked, solverVars>>

\* grid[index] for an integer cell coordinate
LookupCell(index) ==
    /\ Alive /\ gen.op = "none" /\ pc = "none"
    /\ looked' = [by |-> "cell", point |-> <<>>, cell |-> index,
                  result |-> GridIndexCell(volume, index)]
    /\ gen' = GenDone
    /\ emitted' = <<>>
    /\ UNCHANGED <<probe, volume, solverVars>>

\* grid[point] for a position
LookupPoint(point) ==
    /\ Alive /\ gen.op = "none" /\ pc = "none"
    /\ looked' = [by |-> "point", point |-> point, cell |-> containing_cell(volume, point),
                  result |-> GridIndexPoint(volume, point)]
    /\ gen' = GenDone
    /\ emitted' = <<>>
    /\ UNCHANGED <<probe, volume, solverVars>>

\* Sampler::contains(point)
SamplerContainsCall(point) ==
    /\ Alive /\ gen.op = "none" /\ pc = "none"
    /\ looked' = [by |-> "contains", point |-> point, cell |-> containing_cell(volume, point),
                  result |-> SamplerContains(volume, point)]
    /\ gen' = GenDone
    /\ emitted' = <<>>
    /\ UNCHANGED <<probe, volume, solverVars>>

---------------------------------------------------------------------------
(* base.rs: Sampler                                                        *)

\* the values rng.gen_range(0.0..cell_size) is drawn from, as fractions of a cell
DrawFracs == {0, (95 * One) \div 100}

\* Vector::from_fn(|_, _| rng.gen_range(0.0..cell_size))
Draws(g) == Vectors(Len(g.offset), {FMul(f, g.cell_size) : f \in DrawFracs})

\* cell.cast::<f32>() * cell_size
CellOrigin(g, cell) == [i \in 1..Len(cell) |-> FMul(cell[i] * One, g.cell_size)]

AllowedCells(g) == Len(g.inside_cells) + Len(g.border_cells)

\* sample_white up to its loop: gen_range panics on an empty range
SampleWhiteCall ==
    /\ Alive /\ gen.op = "none" /\ pc = "none"
    /\ gen' = IF AllowedCells(volume) = 0 \/ volume.cell_size <= 0
              THEN [GenIdle EXCEPT !.op = Panic]
              ELSE [GenIdle EXCEPT !.op = "white"]
    /\ emitted' = <<>>
    /\ looked' = NoLookup
    /\ UNCHANGED <<probe, volume, solverVars>>

\* the cell index that sample_white's first iteration drew
FirstCell(cell) == IF gen.first = 0 - 1 THEN cell ELSE gen.first

\* the point of one iteration: point + cell.cast::<f32>() * cell_size
WhitePoint(cell, d) ==
    VAdd(d, CellOrigin(volume, (volume.inside_cells \o volume.border_cells)[cell + 1]))

\* an iteration that returns, in a loop that draws its cell once, before the
\* first iteration
SampleWhiteAcceptOnce ==
    /\ Alive /\ gen.op = "white"
    /\ \E cell \in 0..(AllowedCells(volume) - 1), d \in Draws(volume) :
         /\ cell = FirstCell(cell)
         /\ \E point \in {WhitePoint(cell, d)} :
                /\ TRUE \in {cell < Len(volume.inside_cells) \/ contains(volume.volume, point)}
                /\ gen' = [GenIdle EXCEPT !.cell = cell, !.first = FirstCell(cell)]
                /\ emitted' = <<point>>
    /\ UNCHANGED <<probe, volume, looked, solverVars>>

\* an iteration of sample_white's loop that returns: the cell is an inside cell,
\* or a border cell and contains accepts the point
SampleWhiteAccept ==
    /\ Alive /\ gen.op = "white"
    /\ \E cell \in 0..(AllowedCells(volume) - 1), d \in Draws(volume) :
         \E point \in {WhitePoint(cell, d)} :
             /\ TRUE \in {cell < Len(volume.inside_cells) \/ contains(volume.volume, point)}
             /\ gen' = [GenIdle EXCEPT !.cell = cell, !.first = FirstCell(cell)]
             /\ emitted' = <<point>>
    /\ UNCHANGED <<probe, volume, looked, solverVars>>

\* an iteration of sample_white's loop that goes round: a border cell whose
\* point contains rejects
SampleWhiteReject ==
    /\ Alive /\ gen.op = "white"
    /\ \E cell \in Len(volume.inside_cells)..(AllowedCells(volume) - 1), d \in Draws(volume) :
         /\ FALSE \in {contains(volume.volume, WhitePoint(cell, d))}
         /\ gen' = [gen EXCEPT !.first = FirstCell(cell)]
         /\ emitted' = <<>>
    /\ UNCHANGED <<probe, volume, looked, solverVars>>

\* one iteration of sample_white's loop
SampleWhiteDraw == SampleWhiteAccept \/ SampleWhiteReject

CellsOf(g, phase) == IF phase = "inside" THEN g.inside_cells ELSE g.border_cells

\* move the cursor of generate_randomized_grid to the next cell, or finish
Advance(g, c) ==
    IF c.phase = "inside" /\ c.idx > Len(g.inside_cells)
    THEN IF Len(g.border_cells) = 0 THEN [GenIdle EXCEPT !.collect = c.collect]
         ELSE [c EXCEPT !.phase = "border", !.idx = 1]
    ELSE IF c.phase = "border" /\ c.idx > Len(g.border_cells)
    THEN [GenIdle EXCEPT !.collect = c.collect]
    ELSE c

\* samples_per_cell.floor() as u32 + rng.gen_bool(samples_per_cell.fract()) as u32
SampleCounts(density) ==
    IF density % One = 0 THEN {density \div One}
    ELSE {density \div One, density \div One + 1}

\* generate_randomized_grid up to its first cell
GenerateRandomizedGridCall(samples_per_cell, collect) ==
    /\ Alive /\ gen.op = "none" /\ pc = "none"
    /\ gen' = Advance(volume, [GenIdle EXCEPT !.op = "rgrid", !.density = samples_per_cell,
                                              !.phase = "inside", !.idx = 1, !.left = 0 - 1,
                                              !.collect = collect])
    /\ emitted' = <<>>
    /\ points' = IF collect THEN <<>> ELSE points
    /\ looked' = NoLookup
    /\ UNCHANGED <<probe, volume, point_grid, radius, max_penetration,
                   boundary_penetration, pc, iters, max_iters, cutoff, ret, calls, ncalls, stepped>>

\* the draw of num_samples at the head of a cell's iteration
RandomizedGridCount ==
    /\ Alive /\ gen.op = "rgrid" /\ gen.left < 0
    /\ \E k \in SampleCounts(gen.density) :
         gen' = IF k = 0
                THEN Advance(volume, [gen EXCEPT !.idx = gen.idx + 1])
                ELSE [gen EXCEPT !.left = k]
    /\ emitted' = <<>>
    /\ UNCHANGED <<probe, volume, looked, solverVars>>

\* one iteration of the inner loop in which a rejected point is drawn again
RandomizedGridSampleRedraw(draws) ==
    /\ Alive /\ gen.op = "rgrid" /\ gen.left > 0
    /\ IF volume.cell_size <= 0
       THEN /\ gen' = [GenIdle EXCEPT !.op = Panic]
            /\ emitted' = <<>>
            /\ points' = points
       ELSE \E d \in draws :
              LET point == VAdd(d, CellOrigin(volume, CellsOf(volume, gen.phase)[gen.idx]))
                  pass == gen.phase = "inside" \/ contains(volume.volume, point)
                  next == IF ~pass THEN gen
                          ELSE IF gen.left = 1
                          THEN Advance(volume, [gen EXCEPT !.idx = gen.idx + 1, !.left = 0 - 1])
                          ELSE [gen EXCEPT !.left = gen.left - 1]
              IN /\ emitted' = IF pass THEN <<point>> ELSE <<>>
                 /\ points' = IF pass /\ gen.collect THEN Append(points, point) ELSE points
                 /\ gen' = next
    /\ UNCHANGED <<probe, volume, looked, point_grid, radius, max_penetration,
                   boundary_penetration, pc, iters, max_iters, cutoff, ret, calls, ncalls, stepped>>

\* one iteration of the inner loop: draw a point, pass it to f if it qualifies
RandomizedGridSample(draws) ==
    /\ Alive /\ gen.op = "rgrid" /\ gen.left > 0
    /\ IF volume.cell_size <= 0
       THEN /\ gen' = [GenIdle EXCEPT !.op = Panic]
            /\ emitted' = <<>>
            /\ points' = points
       ELSE \E d \in draws :
              LET point == VAdd(d, CellOrigin(volume, CellsOf(volume, gen.phase)[gen.idx]))
                  pass == gen.phase = "inside" \/ contains(volume.volume, point)
                  next == IF gen.left = 1
                          THEN Advance(volume, [gen EXCEPT !.idx = gen.idx + 1, !.left = 0 - 1])
                          ELSE [gen EXCEPT !.left = gen.left - 1]
              IN /\ emitted' = IF pass THEN <<point>> ELSE <<>>
                 /\ points' = IF pass /\ gen.collect THEN Append(points, point) ELSE points
                 /\ gen' = next
    /\ UNCHANGED <<probe, volume, looked, point_grid, radius, max_penetration,
                   boundary_penetration, pc, iters, max_iters, cutoff, ret, calls, ncalls, stepped>>

RECURSIVE GridPointsOf(_, _, _, _, _)
\* the points generate_grid passes to f for the first k cells of a list
GridPointsOf(g, cells, k, size, offset) ==
    IF k = 0 THEN <<>>
    ELSE GridPointsOf(g, cells, k - 1, size, offset)
         \o foreach_grid_in_rect(offset, size, CellOrigin(g, cells[k]),
                                 Repeat(Len(size), g.cell_size))

generate_grid(g, size, offset) ==
    LET Accept(point) == contains(g.volume, point)
    IN GridPointsOf(g, g.inside_cells, Len(g.inside_cells), size, offset)
       \o SelectSeq(GridPointsOf(g, g.border_cells, Len(g.border_cells), size, offset), Accept)

GenerateGrid(size, offset) ==
    /\ Alive /\ gen.op = "none" /\ pc = "none"
    /\ emitted' = generate_grid(volume, size, offset)
    /\ gen' = [GenDone EXCEPT !.args = <<size, offset>>]
    /\ looked' = NoLookup
    /\ UNCHANGED <<probe, volume, solverVars>>

---------------------------------------------------------------------------
(* solver.rs: Solver                                                       *)

BoundaryTolInv == 10000

Neighborhood == 3

\* update_grid: every point index pushed, in index order, under its cell
update_grid(g, pts) ==
    LET idx == [i \in 1..Len(pts) |-> i - 1]
        InCell(c) == LET Here(k) == containing_cell(g, pts[k + 1]) = c IN SelectSeq(idx, Here)
    IN [c \in {containing_cell(g, pts[i]) : i \in 1..Len(pts)} |-> InCell(c)]

RECURSIVE Pow(_, _)
Pow(b, e) == IF e = 0 THEN 1 ELSE b * Pow(b, e - 1)

\* from_linear(i, repeat(3)) for i in 0..3^n, without the shift by repeat(1)
OffsetsOfUnshifted(n) ==
    [k \in 1..Pow(Neighborhood, n) |->
        [i \in 1..n |-> from_linear(k - 1, Repeat(n, Neighborhood))[i]]]

\* from_linear(i, repeat(3)) - repeat(1) for i in 0..3^n
OffsetsOf(n) ==
    [k \in 1..Pow(Neighborhood, n) |->
        [i \in 1..n |-> from_linear(k - 1, Repeat(n, Neighborhood))[i] - 1]]

Offsets1 == OffsetsOf(1)

Offsets2 == OffsetsOf(2)

Offsets3 == OffsetsOf(3)

NeighborOffsets(n) == IF n = 1 THEN Offsets1 ELSE IF n = 2 THEN Offsets2 ELSE Offsets3

\* if let Some(adj) = self.point_grid.get(&key): the indices other than point_index
Adjacent(pg, key, point_index) ==
    LET NotSelf(adj) == adj # point_index
    IN IF key \in DOMAIN pg THEN SelectSeq(pg[key], NotSelf) ELSE <<>>

RECURSIVE NeighborsUpTo(_, _, _, _)
\* the loop `for i in 0..3_usize.pow(N as u32)` over its first k offsets
NeighborsUpTo(pg, cell, point_index, k) ==
    IF k = 0 THEN <<>>
    ELSE NeighborsUpTo(pg, cell, point_index, k - 1)
         \o Bind(IAdd(cell, NeighborOffsets(Len(cell))[k]),
                 LAMBDA key : Adjacent(pg, key, point_index))

\* neighbors: the indices passed to f, in call order
neighbors(g, pg, pts, point_index) ==
    Bind(containing_cell(g, pts[point_index + 1]), LAMBDA cell :
        NeighborsUpTo(pg, cell, point_index, Pow(Neighborhood, Len(cell))))

\* the closure without its test of penetration > 0.0
PairTermUnguarded(r, p, q) ==
    Bind(VSub(p, q), LAMBDA d :
    Bind(Norm(d), LAMBDA dist :
    Bind(FSub(2 * r, dist), LAMBDA penetration :
        [delta |-> VDivS(VScale(VDivS(d, dist), penetration), 2 * One),
         penetration |-> penetration])))

\* the closure of step_collisions for one neighbour q of p:
\* the term added to delta, and the penetration
PairTerm(r, p, q) ==
    Bind(VSub(p, q), LAMBDA d :
    Bind(Norm(d), LAMBDA dist :
    Bind(FSub(2 * r, dist), LAMBDA penetration :
        [delta |-> IF FGt(penetration, 0)
                   THEN VDivS(VScale(VDivS(d, dist), penetration), 2 * One)
                   ELSE Repeat(Len(p), 0),
         penetration |-> penetration])))

\* one call of the closure: delta and max_penetration after the term t
Accumulate(acc, t) ==
    Bind(<<acc, t>>, LAMBDA a :
        [delta |-> VAdd(a[1].delta, a[2].delta),
         max_penetration |-> FMax(a[1].max_penetration, a[2].penetration)])

RECURSIVE NeighborFold(_, _, _, _, _)
\* the closure applied to the first k neighbours of point i (1-based):
\* delta, and the largest penetration seen (0 when there is none above it)
NeighborFold(r, pts, i, adj, k) ==
    IF k = 0 THEN [delta |-> Repeat(Len(pts[i]), 0), max_penetration |-> 0]
    ELSE Accumulate(NeighborFold(r, pts, i, adj, k - 1),
                    PairTerm(r, pts[i], pts[adj[k] + 1]))

\* point i of the two passes: its delta is collected, then *point += delta * delta_factor
Push(prev, point, f, delta_factor) ==
    Bind(<<prev, f>>, LAMBDA a :
        [next_points |->
             Append(a[1].next_points, VAdd(point, VScale(a[2].delta, delta_factor))),
         max_penetration |-> FMax(a[1].max_penetration, a[2].max_penetration)])

\* the scan of point i (0-based) over its neighbours
Scan(g, pg, pts, r, i) ==
    Bind(neighbors(g, pg, pts, i), LAMBDA adj : NeighborFold(r, pts, i + 1, adj, Len(adj)))

RECURSIVE CollideInPlace(_, _, _, _, _, _)
\* one pass that moves each point as soon as its delta is known, so that the
\* scans of the later points read the moved positions
CollideInPlace(g, pg, pts, r, delta_factor, n) ==
    IF n = 0 THEN [next_points |-> <<>>, max_penetration |-> 0]
    ELSE Bind(CollideInPlace(g, pg, pts, r, delta_factor, n - 1), LAMBDA prev :
         Bind(prev.next_points \o SubSeq(pts, n, Len(pts)), LAMBDA cur :
             Push(prev, pts[n], Scan(g, pg, cur, r, n - 1), delta_factor)))

RECURSIVE CollideUpTo(_, _, _, _, _, _)
\* the map over self.points.iter().enumerate() and the loop over the collected
\* deltas, for the first n points
CollideUpTo(g, pg, pts, r, delta_factor, n) ==
    IF n = 0 THEN [next_points |-> <<>>, max_penetration |-> 0]
    ELSE Push(CollideUpTo(g, pg, pts, r, delta_factor, n - 1), pts[n],
              Scan(g, pg, pts, r, n - 1), delta_factor)

\* step_collisions: the new points, the rebuilt hash and max_penetration
step_collisions(g, pts, r, delta_factor) ==
    Bind(update_grid(g, pts), LAMBDA pg :
    Bind(CollideUpTo(g, pg, pts, r, delta_factor, Len(pts)), LAMBDA loop :
        [points |-> loop.next_points,
         point_grid |-> pg,
         max_penetration |-> loop.max_penetration]))

\* the body of step_boundary's loop without its test of dist > 0
BoundaryMoveUnguarded(g, p, delta_factor) ==
    Bind(distance(g.volume, p), LAMBDA dist :
    Bind(VSub(p, VScale(VScale(gradient(g.volume, p), dist), delta_factor)), LAMBDA q :
        [point |-> q, moved |-> TRUE, residual |-> distance(g.volume, q)]))

\* the body of step_boundary's loop for one point: the point and its residual
BoundaryMove(g, p, delta_factor) ==
    Bind(distance(g.volume, p), LAMBDA dist :
        IF FGt(dist, 0)
        THEN Bind(VSub(p, VScale(VScale(gradient(g.volume, p), dist), delta_factor)),
                  LAMBDA q : [point |-> q, moved |-> TRUE, residual |-> distance(g.volume, q)])
        ELSE [point |-> p, moved |-> FALSE, residual |-> 0])

\* the end of one iteration of a loop that keeps only the points it has moved
MovedOnly(prev, m) ==
    Bind(<<prev, m>>, LAMBDA a :
        [points |-> IF a[2].moved THEN Append(a[1].points, a[2].point) ELSE a[1].points,
         boundary_penetration |->
             IF a[2].moved THEN FMax(a[1].boundary_penetration, a[2].residual)
             ELSE a[1].boundary_penetration])

\* the end of one iteration of step_boundary's loop
Moved(prev, m) ==
    Bind(<<prev, m>>, LAMBDA a :
        [points |-> Append(a[1].points, a[2].point),
         boundary_penetration |->
             IF a[2].moved THEN FMax(a[1].boundary_penetration, a[2].residual)
             ELSE a[1].boundary_penetration])

RECURSIVE BoundaryUpTo(_, _, _, _)
\* the loop `for point in self.points.iter_mut()` over its first n iterations
BoundaryUpTo(g, pts, delta_factor, n) ==
    IF n = 0 THEN [points |-> <<>>, boundary_penetration |-> 0]
    ELSE Moved(BoundaryUpTo(g, pts, delta_factor, n - 1),
               BoundaryMove(g, pts[n], delta_factor))

\* step_boundary: the new points and boundary_penetration
step_boundary(g, pts, delta_factor) == BoundaryUpTo(g, pts, delta_factor, Len(pts))

\* bp > 0.0001 * r, compared exactly
ExceedsBoundaryTol(bp, r) == IF bp = Inf THEN TRUE ELSE bp * BoundaryTolInv > r

\* the while condition without its test of boundary_penetration
SolveContinuesOnCollisions(mp, bp, r, co, it, mi) ==
    /\ FGt(mp, FMul(co, r))
    /\ it < mi

\* the condition of solve's while loop
SolveContinues(mp, bp, r, co, it, mi) ==
    /\ FGt(mp, FMul(co, r)) \/ ExceedsBoundaryTol(bp, r)
    /\ it < mi

---------------------------------------------------------------------------
(* Solver calls.  solve is followed through its loop: "loop" is the test   *)
(* of the while condition, "coll" and "bound" the two calls of the body.   *)

MaxCalls == 2

MaxIters == 2

\* Solver::new with both metrics starting at zero
SolverNewZeroed(pts, r) ==
    /\ Alive /\ gen.op = "none" /\ pc = "none"
    /\ points' = pts
    /\ radius' = r
    /\ point_grid' = <<>>
    /\ max_penetration' = 0
    /\ boundary_penetration' = 0
    /\ pc' = "idle"
    /\ UNCHANGED <<probe, gridVars, iters, max_iters, cutoff, ret, calls, ncalls, stepped>>

\* Solver::new
SolverNew(pts, r) ==
    /\ Alive /\ gen.op = "none" /\ pc = "none"
    /\ points' = pts
    /\ radius' = r
    /\ point_grid' = <<>>
    /\ max_penetration' = Inf
    /\ boundary_penetration' = Inf
    /\ pc' = "idle"
    /\ UNCHANGED <<probe, gridVars, iters, max_iters, cutoff, ret, calls, ncalls, stepped>>

\* the build profile: whether i32 arithmetic is compiled with overflow checks
OverflowChecks == BOOLEAN

\* cell + offset overflows i32 in the scan of some point of pts
ScanOverflows(g, pts) ==
    \E i \in 1..Len(pts) :
        \E cell \in {containing_cell(g, pts[i])} :
            \E k \in 1..Pow(Neighborhood, Len(cell)), a \in 1..Len(cell) :
                AddOverflows(cell[a], NeighborOffsets(Len(cell))[k][a])

\* step_collisions as an action on the solver: with overflow checks an
\* overflowing cell + offset panics after update_grid and before any point moves
CollisionsOutcome(delta_factor, checked, after) ==
    IF checked /\ ScanOverflows(volume, points)
    THEN /\ point_grid' = update_grid(volume, points)
         /\ pc' = Panic
         /\ UNCHANGED <<points, max_penetration>>
    ELSE /\ \E s \in {step_collisions(volume, points, radius, delta_factor)} :
               /\ points' = s.points
               /\ point_grid' = s.point_grid
               /\ max_penetration' = s.max_penetration
         /\ pc' = after

\* the build profiles to tell apart: both when the scan overflows, one when the
\* two builds compute the same step
Builds == IF ScanOverflows(volume, points) THEN OverflowChecks ELSE {FALSE}

\* a call of step_collisions by the caller
StepCollisions(delta_factor) ==
    /\ Alive /\ pc = "idle" /\ ncalls < MaxCalls
    /\ \E checked \in Builds : CollisionsOutcome(delta_factor, checked, pc)
    /\ ncalls' = ncalls + 1
    /\ stepped' = [stepped EXCEPT !.collisions = TRUE, !.last = "collisions"]
    /\ UNCHANGED <<probe, gridVars, radius, boundary_penetration, iters, max_iters, cutoff,
                   ret, calls>>

\* a call of step_boundary by the caller
StepBoundary(delta_factor) ==
    /\ Alive /\ pc = "idle" /\ ncalls < MaxCalls
    /\ \E s \in {step_boundary(volume, points, delta_factor)} :
          /\ points' = s.points
          /\ boundary_penetration' = s.boundary_penetration
    /\ ncalls' = ncalls + 1
    /\ stepped' = [stepped EXCEPT !.boundary = TRUE, !.last = "boundary"]
    /\ UNCHANGED <<probe, gridVars, radius, point_grid, max_penetration, pc, iters, max_iters,
                   cutoff, ret, calls>>

\* solve(max_iters, cutoff) is entered: let mut iters = 0
SolveCall(mi, co) ==
    /\ Alive /\ pc = "idle" /\ ncalls < MaxCalls
    /\ pc' = "loop"
    /\ iters' = 0
    /\ max_iters' = mi
    /\ cutoff' = co
    /\ calls' = <<>>
    /\ ret' = 0 - 1
    /\ ncalls' = ncalls + 1
    /\ UNCHANGED <<probe, gridVars, points, point_grid, radius, max_penetration,
                   boundary_penetration, stepped>>

\* the while condition: enter the body, or return iters
SolveTest ==
    /\ Alive /\ pc = "loop"
    /\ IF SolveContinues(max_penetration, boundary_penetration, radius, cutoff, iters, max_iters)
       THEN pc' = "coll" /\ ret' = ret
       ELSE pc' = "idle" /\ ret' = iters
    /\ UNCHANGED <<probe, gridVars, points, point_grid, radius, max_penetration,
                   boundary_penetration, iters, max_iters, cutoff, calls, ncalls, stepped>>

\* self.step_collisions(2.0)
SolveCollisions ==
    /\ Alive /\ pc = "coll"
    /\ \E checked \in Builds : CollisionsOutcome(2 * One, checked, "bound")
    /\ calls' = Append(calls, <<"step_collisions", 2 * One>>)
    /\ stepped' = [stepped EXCEPT !.collisions = TRUE, !.last = "collisions"]
    /\ UNCHANGED <<probe, gridVars, radius, boundary_penetration, iters, max_iters, cutoff, ret,
                   ncalls>>

\* self.step_boundary(1.0) without iters += 1
SolveBoundaryUncounted ==
    /\ Alive /\ pc = "bound"
    /\ \E s \in {step_boundary(volume, points, One)} :
          /\ points' = s.points
          /\ boundary_penetration' = s.boundary_penetration
    /\ pc' = "loop"
    /\ calls' = Append(calls, <<"step_boundary", One>>)
    /\ stepped' = [stepped EXCEPT !.boundary = TRUE, !.last = "boundary"]
    /\ UNCHANGED <<probe, gridVars, radius, point_grid, max_penetration, iters, max_iters, cutoff,
                   ret, ncalls>>

\* self.step_boundary(1.0); iters += 1
SolveBoundary ==
    /\ Alive /\ pc = "bound"
    /\ \E s \in {step_boundary(volume, points, One)} :
          /\ points' = s.points
          /\ boundary_penetration' = s.boundary_penetration
    /\ iters' = iters + 1
    /\ pc' = "loop"
    /\ calls' = Append(calls, <<"step_boundary", One>>)
    /\ stepped' = [stepped EXCEPT !.boundary = TRUE, !.last = "boundary"]
    /\ UNCHANGED <<probe, gridVars, radius, point_grid, max_penetration, max_iters, cutoff, ret,
                   ncalls>>

---------------------------------------------------------------------------
(* The solver under direct calls: Spec                                     *)

Box2 == Cuboid(<<0, 0>>, <<3000, 2000>>)

Seg1 == Cuboid(<<0>>, <<3000>>)

Disc2 == Ball(<<1500, 1500>>, 1500)

\* well-formed fields and fields or cell sizes that break create_grid's contract
SolverGridInputs ==
    { <<Box2, 1000>>, <<Seg1, 1000>>, <<Disc2, 1000>>,
      <<Ball(<<1500, 1500>>, 707), 1000>>,
      <<Cuboid(<<1800, 0>>, <<1200, 1000>>), 1000>>,
      <<Cuboid(<<1500, 0>>, <<1500, 1000>>), 1000>>,
      <<Cuboid(<<2500>>, <<500>>), 1000>>,
      <<Cuboid(<<0 - 500, 0 - 500>>, <<0 - 300, 0 - 300>>), 0 - 1000>>,
      <<Box2, 0 - 1000>>,
      <<Cuboid(<<500, 500>>, <<1500, 1500>>), 0>>,
      <<Cuboid(<<0 - 500, 0 - 500>>, <<1500, 1500>>), 0>> }

\* the point sets handed to Solver::new
PointSets(n) ==
    IF n = 1
    THEN { <<>>,
           << <<500>>, <<500>> >>,
           << <<500>>, <<900>> >>,
           << <<500>>, <<1500>> >>,
           << <<500>>, <<1900>> >>,
           << <<0 - 200>>, <<500>>, <<3400>> >>,
           << <<500>>, <<1480>>, <<2470>> >> }
    ELSE { <<>>,
           << <<500, 500>>, <<500, 500>> >>,
           << <<500, 500>>, <<1100, 500>> >>,
           << <<500, 500>>, <<1500, 500>> >>,
           << <<500, 500>>, <<3400, 2300>> >>,
           << <<500, 500>>, <<1300, 500>>, <<2100, 500>> >>,
           << <<500, 500>>, <<1480, 500>>, <<1000, 1360>> >> }

Radii == {500, 0, 0 - 500}

DeltaFactors == {One, 2 * One}

Cutoffs == {0, One \div 10}

Next ==
    \/ CreateGridFrom(SolverGridInputs)
    \/ /\ volume.cell_size > 0
       /\ \E pts \in PointSets(Len(volume.offset)), r \in Radii : SolverNew(pts, r)
    \/ \E df \in DeltaFactors : StepCollisions(df)
    \/ \E df \in DeltaFactors : StepBoundary(df)
    \/ \E mi \in 0..MaxIters, co \in Cutoffs : SolveCall(mi, co)
    \/ SolveTest
    \/ SolveCollisions
    \/ SolveBoundary

Spec == Init /\ [][Next]_vars

\* solve's loop is sequential code: each of its steps is taken when it is reached
FairSpec ==
    Spec /\ WF_vars(SolveTest) /\ WF_vars(SolveCollisions) /\ WF_vars(SolveBoundary)

---------------------------------------------------------------------------
(* The Sampler and the grid lookups: SpecSampler                           *)

Ball3 == Ball(<<0, 0, 0>>, 1600)

SamplerGridInputs ==
    { <<Ball3, 1000>>, <<Disc2, 1000>>, <<Box2, 1000>>, <<Seg1, 1000>>,
      <<pad(Box2, 300), 1000>> }

\* how far past the allocated box, on each side, the lookups reach
LookupSpan == 1

\* the cell coordinates looked up: the allocated box and LookupSpan cells around it
LookupIndices(g) ==
    LET n == Len(g.offset)
        lo == MaxOver([i \in 1..n |-> 0 - g.offset[i]], n)
        hi == MaxOver([i \in 1..n |-> g.offset[i] + g.cells.shape[i]], n)
    IN { v \in Vectors(n, (0 - lo - LookupSpan)..(hi - 1 + LookupSpan)) :
           \A i \in 1..n : /\ v[i] >= g.offset[i] - LookupSpan
                           /\ v[i] <= g.offset[i] + g.cells.shape[i] - 1 + LookupSpan }

SampleDensities == {One \div 2, 2 * One}

\* the spacing and the phase handed to generate_grid
GridSizes(g) ==
    {Repeat(Len(g.offset), g.cell_size \div 2), Repeat(Len(g.offset), g.cell_size),
     Repeat(Len(g.offset), (3 * g.cell_size) \div 2)}

GridOffsets(g) ==
    {Repeat(Len(g.offset), 0), Repeat(Len(g.offset), g.cell_size \div 4),
     Repeat(Len(g.offset), 0 - g.cell_size \div 2),
     Repeat(Len(g.offset), (9 * g.cell_size) \div 4)}

\* the grid never changes after construction, so the outcome of a lookup or of
\* generate_grid does not depend on the calls before it: these are followed from
\* the states in which no earlier call has left a result
NoResult == looked = NoLookup /\ emitted = <<>>

\* positions of the closed bounding box of the field: on every axis the lower
\* bound, the middle or the upper bound
BoxPoints(g) ==
    LET lo == min_bound(g.volume)
        hi == max_bound(g.volume)
        n == Len(g.offset)
    IN { Components(p, n) :
           p \in { q \in Vectors(n, UNION { {lo[i], (lo[i] + hi[i]) \div 2, hi[i]} : i \in 1..n }) :
                     \A i \in 1..n : q[i] \in {lo[i], (lo[i] + hi[i]) \div 2, hi[i]} } }

NextSampler ==
    \/ CreateGridFrom(SamplerGridInputs)
    \/ /\ volume.status = "ok" /\ NoResult
       /\ \E index \in LookupIndices(volume) \cup {Repeat(Len(volume.offset), I32Min)} :
            LookupCell(index)
    \/ /\ volume.status = "ok" /\ NoResult
       /\ \E index \in LookupIndices(volume) :
            LookupPoint(CellCenter(index, volume.cell_size))
    \/ /\ volume.status = "ok" /\ NoResult
       /\ \E point \in BoxPoints(volume) : LookupPoint(point)
    \/ /\ volume.status = "ok" /\ NoResult
       /\ \E point \in BoxPoints(volume) : SamplerContainsCall(point)
    \/ SampleWhiteCall
    \/ SampleWhiteDraw
    \/ \E d \in SampleDensities : GenerateRandomizedGridCall(d, FALSE)
    \/ RandomizedGridCount
    \/ /\ volume.status = "ok"
       /\ RandomizedGridSample(Draws(volume))
    \/ /\ volume.status = "ok" /\ NoResult
       /\ \E size \in GridSizes(volume), offset \in GridOffsets(volume) :
            GenerateGrid(size, offset)

SpecSampler == Init /\ [][NextSampler]_vars

---------------------------------------------------------------------------
(* SpecWhite: Sampler::sample_white on its own                              *)

\* grids whose lists hold inside cells, border cells where every draw is
\* rejected (the corner cells of the disc of radius 0.707), and no cell at all
WhiteGridInputs ==
    { <<Disc2, 1000>>, <<Box2, 1000>>, <<Seg1, 1000>>, <<pad(Box2, 300), 1000>>,
      <<Ball(<<1500, 1500>>, 707), 1000>>,
      <<Ball(<<1000, 1000, 1000>>, 10), 1000>> }

NextWhite ==
    \/ CreateGridFrom(WhiteGridInputs)
    \/ SampleWhiteCall
    \/ SampleWhiteDraw

SpecWhite == Init /\ [][NextWhite]_vars

\* fair random choices: an outcome of the draws that stays possible is
\* eventually drawn
FairWhite == SpecWhite /\ WF_vars(SampleWhiteAccept)

---------------------------------------------------------------------------
(* The solver on points far outside the grid: SpecFar                      *)

FarGridInputs == { <<Seg1, 1000>>, <<Box2, 1000>> }

\* point sets with a coordinate whose quotient by cell_size is beyond the range
\* of i32 (any coordinate of magnitude 2^31 * cell_size or more, held here as an
\* infinity), next to points in and just outside the box
FarPointSets(n) ==
    IF n = 1
    THEN { << <<500>>, <<Inf>> >>,
           << <<0 - Inf>>, <<500>>, <<900>> >>,
           << <<Inf>>, <<Inf>> >>,
           << <<0 - 200>>, <<500>>, <<3400>> >> }
    ELSE { << <<500, 500>>, <<Inf, 500>> >>,
           << <<500, 0 - Inf>>, <<500, 500>>, <<1100, 500>> >>,
           << <<500, 500>>, <<3400, 2300>> >> }

NextFar ==
    \/ CreateGridFrom(FarGridInputs)
    \/ \E pts \in FarPointSets(Len(volume.offset)), r \in Radii : SolverNew(pts, r)
    \/ \E df \in DeltaFactors : StepCollisions(df)
    \/ \E df \in DeltaFactors : StepBoundary(df)
    \/ \E mi \in 0..MaxIters, co \in Cutoffs : SolveCall(mi, co)
    \/ SolveTest
    \/ SolveCollisions
    \/ SolveBoundary

SpecFar == Init /\ [][NextFar]_vars

---------------------------------------------------------------------------
(* ext.rs: packed_points_impl, the sample-then-pack pipeline: SpecPacked   *)

default_packed_density(n) == IF n = 3 THEN (3 * One) \div 2 ELSE One

PackedDomain == Cuboid(<<0, 0>>, <<10500, 7000>>)

PackedSettings ==
    [radius |-> 1750, density |-> 0, max_iters |-> 2, cutoff |-> One \div 10]

\* the outcomes of the generator's draws inside a cell
PackedDraws == {<<200, 0>>, <<820, 1750>>, <<3387, 2500>>}

\* Sampler::with_rng(domain, settings.particle_settings.radius * 2.0, rng)
PackedSampler == CreateGridFrom({<<PackedDomain, 2 * PackedSettings.radius>>})

\* sampler.generate_randomized_grid(density, |p| points.push(p))
PackedGenerate ==
    /\ ~gen.collect
    /\ GenerateRandomizedGridCall(
           IF PackedSettings.density <= 0
           THEN default_packed_density(Len(volume.offset))
           ELSE PackedSettings.density, TRUE)

\* Solver::new(sampler.volume, points, settings.particle_settings.radius)
PackedSolverNew == gen.collect /\ SolverNew(points, PackedSettings.radius)

\* solver.solve(settings.max_iters, settings.cutoff)
PackedSolve == ncalls = 0 /\ SolveCall(PackedSettings.max_iters, PackedSettings.cutoff)

NextPacked ==
    \/ PackedSampler
    \/ PackedGenerate
    \/ RandomizedGridCount
    \/ RandomizedGridSample(PackedDraws)
    \/ PackedSolverNew
    \/ PackedSolve
    \/ SolveTest
    \/ SolveCollisions
    \/ SolveBoundary

SpecPacked == Init /\ [][NextPacked]_vars

---------------------------------------------------------------------------
(* Regions evaluated at points: SpecRegion                                 *)

\* contains and distance of a PolygonArea at one point
EvaluatePolygon(area, point) ==
    /\ probe' = [kind |-> "polygon", region |-> area, point |-> point,
                 contains |-> PolygonContains(area, point),
                 distance |-> PolygonDistance(area, point)]
    /\ UNCHANGED <<gridVars, solverVars>>

\* contains and distance of a VolumeCore region at one point
EvaluateField(v, point) ==
    /\ probe' = [kind |-> "field", region |-> v, point |-> point,
                 contains |-> contains(v, point),
                 distance |-> distance(v, point)]
    /\ UNCHANGED <<gridVars, solverVars>>

\* the square [0, 2] x [0, 2]
Square == add_rect(PolygonAreaNew, <<One, One>>, <<One, One>>)

Triangle == add_polygon(PolygonAreaNew, << <<0, 0>>, <<2 * One, 0>>, <<0, 2 * One>> >>)

\* the square with the square [0.5, 1.5] x [0.5, 1.5] cut out of it
Frame == add_rect(Square, <<One \div 2, One \div 2>>, <<One, One>>)

PolygonAreas == {Square, Triangle, Frame}

ProbeFields == {Box2, Disc2, pad(Box2, 300), pad(Disc2, 300)}

\* how far the probed lattice reaches, in half units
ProbeSpan == 6

\* the points probed: a lattice of half units from -0.5 on both axes
ProbePoints ==
    { <<(i - 1) * (One \div 2), (j - 1) * (One \div 2)>> : i, j \in 0..ProbeSpan }

NextRegion ==
    \/ \E area \in PolygonAreas, point \in ProbePoints : EvaluatePolygon(area, point)
    \/ \E v \in ProbeFields, point \in ProbePoints : EvaluateField(v, point)

SpecRegion == Init /\ [][NextRegion]_vars

---------------------------------------------------------------------------
(* Claims                                                                  *)

\* solve has returned and reports convergence: fewer than max_iters iterations
Converged == pc = "idle" /\ ret >= 0 /\ ret < max_iters

\* the step just taken is a step_boundary, called directly or by solve
BoundaryStepTaken ==
    \/ pc = "bound" /\ pc' = "loop"
    \/ pc = "idle" /\ pc' = "idle" /\ ncalls' # ncalls /\ stepped'.last = "boundary"

\* the step just taken is a step_collisions, called directly or by solve
CollisionStepTaken ==
    \/ pc = "coll" /\ pc' = "bound"
    \/ pc = "idle" /\ pc' = "idle" /\ ncalls' # ncalls /\ stepped'.last = "collisions"

\* C1: every point returned by sample_white or passed to f by generate_grid or
\* generate_randomized_grid is contained in the region, points of Inside cells
\* included
C1_SamplerSoundness ==
    \A i \in 1..Len(emitted) : contains(volume.volume, emitted[i])

\* C2: a solve that returns fewer than max_iters returns with
\* max_penetration <= cutoff * radius and boundary_penetration <= 0.0001 * radius;
\* and while either bound is exceeded and iters < max_iters, solve enters the body
C2_SolveExit ==
    [][/\ (pc = "loop" /\ pc' = "idle" /\ ret' < max_iters) =>
             /\ FLe(max_penetration, FMul(cutoff, radius))
             /\ boundary_penetration # Inf
             /\ boundary_penetration * BoundaryTolInv <= radius
       /\ (/\ pc = "loop"
           /\ iters < max_iters
           /\ \/ FGt(max_penetration, FMul(cutoff, radius))
              \/ boundary_penetration = Inf
              \/ boundary_penetration * BoundaryTolInv > radius) =>
             pc' = "coll"]_vars

\* a solve has converged after running at least one iteration
C2_Witness == Converged /\ ret >= 1

\* the calls solve has made: step_collisions(2.0) and step_boundary(1.0) in turn,
\* one pair per iteration counted, and never more than max_iters iterations
SolveLog ==
    /\ pc \in {"none", "idle", "loop", "coll", "bound"}
    /\ iters >= 0 /\ iters <= max_iters
    /\ Len(calls) = 2 * iters + (IF pc = "bound" THEN 1 ELSE 0)
    /\ \A k \in 1..Len(calls) :
         calls[k] = IF k % 2 = 1 THEN <<"step_collisions", 2 * One>>
                    ELSE <<"step_boundary", One>>
    /\ (pc = "idle" /\ ret >= 0) => (ret = iters /\ ret <= max_iters)

C4_PackedSeparation ==
    Converged =>
        /\ \A i, j \in 1..Len(points) :
             i < j => FLe(FMul(2 * radius, One - cutoff), Norm(VSub(points[i], points[j])))
        /\ \A i \in 1..Len(points) : contains(volume.volume, points[i])

\* C5: no position is ever not-a-number, coincident points included
C5_PositionsDefined ==
    \A i \in 1..Len(points) : ~HasNaN(points[i])

\* C6: a grid exists only for cell_size > 0 and bounds with min < max on every
\* axis, and a solver only for radius > 0
C6_FailFast ==
    /\ volume.status = "ok" =>
         /\ volume.cell_size > 0
         /\ \A i \in 1..Len(volume.offset) :
              min_bound(volume.volume)[i] < max_bound(volume.volume)[i]
    /\ pc # "none" => radius > 0

\* the cell looked up lies outside the allocated box on some axis
OutsideBox ==
    \E i \in 1..Len(looked.cell) :
        \/ looked.cell[i] < volume.offset[i]
        \/ looked.cell[i] >= volume.offset[i] + volume.cells.shape[i]

\* C7: a lookup by cell coordinate, or by a position whose containing cell lies
\* outside the allocated box on any axis, fails
C7_OutOfRangeFails ==
    (looked.by # "none" /\ OutsideBox) => looked.result = Panic

\* a lookup by position at or above offset + size on the first axis only, where
\* the linear index of the cell is that of an allocated cell
C7_Witness ==
    /\ looked.by = "point" /\ looked.result = Panic
    /\ Len(looked.cell) >= 2
    /\ looked.cell[1] = volume.offset[1] + volume.cells.shape[1]
    /\ \A i \in 2..Len(looked.cell) : looked.cell[i] = volume.offset[i]

\* both metrics are +infinity until the first step of their kind
InfinityUntilStepped ==
    pc # "none" =>
        /\ ~stepped.collisions => max_penetration = Inf
        /\ ~stepped.boundary => boundary_penetration = Inf

\* C9: after Solver::new max_penetration is +infinity until the first
\* step_collisions and boundary_penetration until the first step_boundary;
\* step_boundary leaves max_penetration and step_collisions leaves
\* boundary_penetration; a solve on a fresh solver with max_iters >= 1 enters its
\* body, and a solve with max_iters = 0 returns 0 with points and metrics unchanged
C9_MetricsStartInfinite ==
    /\ []InfinityUntilStepped
    /\ [][/\ BoundaryStepTaken => max_penetration' = max_penetration
          /\ CollisionStepTaken => boundary_penetration' = boundary_penetration
          /\ (/\ pc = "loop" /\ iters = 0 /\ max_iters >= 1
              /\ ~stepped.collisions /\ ~stepped.boundary) => pc' = "coll"
          /\ (pc = "loop" /\ max_iters = 0) =>
                /\ pc' = "idle" /\ ret' = 0
                /\ points' = points
                /\ max_penetration' = max_penetration
                /\ boundary_penetration' = boundary_penetration]_vars

\* step_collisions has run and step_boundary has not: one metric is finite, the
\* other still +infinity
C9_Witness ==
    /\ pc = "idle" /\ stepped.collisions /\ ~stepped.boundary
    /\ max_penetration # Inf /\ boundary_penetration = Inf

\* C10: step_boundary leaves every point with distance <= 0 where it is, for
\* every delta_factor, and sets boundary_penetration to 0 when every point has
\* distance <= 0
C10_BoundaryIdempotent ==
    [][BoundaryStepTaken =>
          /\ \A i \in 1..Len(points) :
               FLe(distance(volume.volume, points[i]), 0) => points'[i] = points[i]
          /\ (\A i \in 1..Len(points) : FLe(distance(volume.volume, points[i]), 0)) =>
               boundary_penetration' = 0]_vars

\* a direct step_boundary has just run on a set with a point strictly inside,
\* which stayed, and a point outside, now on the surface
C10_Witness ==
    /\ pc = "idle" /\ stepped.last = "boundary"
    /\ \E i, j \in 1..Len(points) :
         /\ ~HasNaN(points[i]) /\ distance(volume.volume, points[i]) < 0
         /\ ~HasNaN(points[j]) /\ distance(volume.volume, points[j]) = 0

\* the largest element of a non-empty set of numbers
SetMax(S) == CHOOSE m \in S : \A x \in S : x <= m

\* no coordinate of any point is not-a-number
PointsDefined == \A i \in 1..Len(points) : ~HasNaN(points[i])

\* 2 * radius - distance for every pair (i, j) the neighbour scan of a
\* step_collisions on the current positions evaluates
EvaluatedGaps ==
    Bind(update_grid(volume, points), LAMBDA pg :
        UNION { Bind(neighbors(volume, pg, points, i - 1), LAMBDA adj :
                    { FSub(2 * radius, Norm(VSub(points[i], points[adj[k] + 1]))) :
                        k \in 1..Len(adj) }) :
                i \in 1..Len(points) })

\* C11: after step_collisions max_penetration is the largest 2 * radius - distance
\* over the pairs evaluated, measured before the corrections, also when that
\* value is negative
C11_MaxPenetrationSigned ==
    [][(CollisionStepTaken /\ radius > 0 /\ PointsDefined /\ EvaluatedGaps # {}) =>
          max_penetration' = SetMax(EvaluatedGaps)]_vars

\* C12: for every region and every point, contains(p) is distance(p) <= 0,
\* points on an edge or a vertex of a polygon included
C12_ContainsIffDistance ==
    probe.kind # "none" => (probe.contains <=> FLe(probe.distance, 0))

\* sample_white has returned a point
WhiteReturned == gen.op = "none" /\ gen.first # 0 - 1 /\ Len(emitted) = 1

\* C13: sample_white chooses its cell once: the point it returns was drawn in
\* the first cell chosen, also after a rejection in a border cell
C13_CellChosenOnce ==
    WhiteReturned =>
        /\ gen.cell = gen.first
        /\ containing_cell(volume, emitted[1])
             = (volume.inside_cells \o volume.border_cells)[gen.first + 1]

\* the cell generate_randomized_grid is at
CurrentCell == CellsOf(volume, gen.phase)[gen.idx]

\* point lies in the half-open box [cell * cell_size, (cell + 1) * cell_size)
InCellBox(point, cell) ==
    \A i \in 1..Len(cell) :
        /\ FLe(cell[i] * volume.cell_size, point[i])
        /\ FLt(point[i], (cell[i] + 1) * volume.cell_size)

\* generate_randomized_grid is still at the cell it was at before the step
SameCell == gen'.op = "rgrid" /\ gen'.phase = gen.phase /\ gen'.idx = gen.idx

\* the number of candidates the step has just decided on for the current cell
CandidatesDecided == IF SameCell THEN gen'.left ELSE 0

SolverStepTaken ==
    \/ BoundaryStepTaken
    \/ CollisionStepTaken
    \/ pc = "idle" /\ pc' = "loop"
    \/ pc = "loop"

\* C15: no step of step_collisions, step_boundary or solve changes the grid, the
\* radius or the number of points, and a point that step_boundary finds inside
\* stays under its index
C15_SolverFrame ==
    [][SolverStepTaken =>
          /\ volume' = volume
          /\ radius' = radius
          /\ Len(points') = Len(points)
          /\ BoundaryStepTaken =>
                \A i \in 1..Len(points) :
                    ~FGt(distance(volume.volume, points[i]), 0) => points'[i] = points[i]
          /\ <<gen, emitted, looked, probe>>' = <<gen, emitted, looked, probe>>
      ]_vars

\* both steps have run on three points and left an overlap and an excursion
C15_Witness ==
    /\ stepped.collisions /\ stepped.boundary /\ Len(points) = 3
    /\ FGt(max_penetration, 0) /\ FGt(boundary_penetration, 0)

\* cells a and b differ by at most one along every axis
CellNear(a, b) ==
    \A i \in 1..Len(a) : a[i] - b[i] \in {0 - 1, 0, 1}

\* the other points in the 3^N neighborhood of point i at a distance below
\* 2 * radius, all taken before the step
JacobiNeighbors(i) ==
    {j \in (1..Len(points)) \ {i} :
        /\ CellNear(containing_cell(volume, points[i]), containing_cell(volume, points[j]))
        /\ FLt(Norm(VSub(points[i], points[j])), 2 * radius)}

\* the correction of p for its neighbour q: half the penetration along (p - q) / d
JacobiTerm(p, q) ==
    Bind(Norm(VSub(p, q)), LAMBDA d :
        VDivS(VScale(VDivS(VSub(p, q), d), FSub(2 * radius, d)), 2 * One))

RECURSIVE JacobiSum(_, _)
JacobiSum(i, S) ==
    IF S = {} THEN Repeat(Len(points[i]), 0)
    ELSE LET j == CHOOSE j \in S : TRUE
         IN VAdd(JacobiTerm(points[i], points[j]), JacobiSum(i, S \ {j}))

\* C16: step_collisions(delta_factor) puts every point at its position before
\* the step plus delta_factor times the sum of the corrections of its
\* neighbours nearer than 2 * radius, all computed from the positions before
\* the step
C16_JacobiUpdate ==
    [][CollisionStepTaken =>
          \E df \in DeltaFactors :
              \A i \in 1..Len(points) :
                  points'[i] = VAdd(points[i], VScale(JacobiSum(i, JacobiNeighbors(i)), df))
      ]_vars

\* a collision step has run on three points, found an overlap and left every
\* position defined
C16_Witness ==
    /\ stepped.last = "collisions" /\ Len(points) = 3 /\ radius > 0
    /\ FGt(max_penetration, 0)
    /\ \A i \in 1..3 : ~HasNaN(points[i])

\* C17: a point that has no other point of its 3^N neighborhood at a distance
\* strictly below 2 * radius keeps its exact position in step_collisions, and
\* when no point has one, max_penetration is not positive after the step
C17_UntouchedPointsStay ==
    [][CollisionStepTaken =>
          /\ \A i \in 1..Len(points) : JacobiNeighbors(i) = {} => points'[i] = points[i]
          /\ (\A i \in 1..Len(points) : JacobiNeighbors(i) = {}) => ~FGt(max_penetration', 0)
      ]_vars

\* two points exactly 2 * radius apart for a radius of 0.5
TouchingPair == << <<500>>, <<1500>> >>

\* a collision step has run on two points exactly 2 * radius apart
C17_Witness ==
    /\ stepped.last = "collisions" /\ radius = 500
    /\ points = TouchingPair
    /\ max_penetration = 0

\* how often the index idx occurs in the list adj
Occurrences(adj, idx) == Cardinality({k \in 1..Len(adj) : adj[k] = idx})

\* how often the index idx occurs in the spatial hash pg
HashOccurrences(pg, idx) ==
    Cardinality({<<key, k>> \in UNION {{key} \X (1..Len(pg[key])) : key \in DOMAIN pg} :
                    pg[key][k] = idx})

\* floor(position / cell_size) along every axis, as an i32
FloorKey(point) ==
    [i \in 1..Len(point) |-> FloorDiv(point[i], volume.cell_size)]

\* C18: the hash that the scan of step_collisions reads holds every point index
\* exactly once, under the key floor(position / cell_size) of the position the
\* point has at the scan, and nothing else; step_boundary and the loop of solve
\* leave the hash alone
C18_HashFreshAtScan ==
    [][/\ CollisionStepTaken =>
             /\ \A i \in 1..Len(points) :
                   /\ FloorKey(points[i]) \in DOMAIN point_grid'
                   /\ Occurrences(point_grid'[FloorKey(points[i])], i - 1) = 1
                   /\ HashOccurrences(point_grid', i - 1) = 1
             /\ \A key \in DOMAIN point_grid' :
                   /\ point_grid'[key] # <<>>
                   /\ \A k \in 1..Len(point_grid'[key]) :
                         point_grid'[key][k] \in 0..(Len(points) - 1)
       /\ (SolverStepTaken /\ ~CollisionStepTaken) => point_grid' = point_grid
      ]_vars

\* a collision step has rebuilt the hash, scanned it and then moved a point out
\* of the cell it is filed under
C18_Witness ==
    /\ stepped.last = "collisions" /\ Len(points) > 1
    /\ \E i \in 1..Len(points) :
          /\ ~HasNaN(points[i])
          /\ \E key \in DOMAIN point_grid :
                /\ Occurrences(point_grid[key], i - 1) = 1
                /\ key # FloorKey(points[i])

\* the position step_boundary(df) gives to the point p: p itself unless its
\* distance is positive
Projected(p, df) ==
    Bind(distance(volume.volume, p), LAMBDA dist :
        IF FGt(dist, 0)
        THEN VSub(p, VScale(VScale(gradient(volume.volume, p), dist), df))
        ELSE p)

\* the distances, after the move, of the points step_boundary(df) moves
ResidualsOfMoved(df) ==
    {distance(volume.volume, Projected(points[i], df)) :
        i \in {k \in 1..Len(points) : FGt(distance(volume.volume, points[k]), 0)}}

\* the largest of the values of S that are positive, or 0
LargestPositive(S) ==
    IF \E x \in S : FGt(x, 0) THEN SetMax({x \in S : FGt(x, 0)}) ELSE 0

\* C19: step_boundary(delta_factor) moves each point of positive distance by
\* -gradient * distance * delta_factor taken at the point itself, sets
\* boundary_penetration to the largest distance left among the moved points or
\* to 0, and so leaves every point at a distance of at most boundary_penetration
C19_BoundaryStep ==
    [][BoundaryStepTaken =>
          /\ \E df \in DeltaFactors :
                /\ \A i \in 1..Len(points) : points'[i] = Projected(points[i], df)
                /\ boundary_penetration' = LargestPositive(ResidualsOfMoved(df))
          /\ \A i \in 1..Len(points') :
                FLe(distance(volume.volume, points'[i]), boundary_penetration')
          /\ boundary_penetration' = 0 =>
                \A i \in 1..Len(points') : FLe(distance(volume.volume, points'[i]), 0)
      ]_vars

\* the integer box [floor(min_bound / cell_size), ceil(max_bound / cell_size))
GridBox ==
    LET n == Len(volume.offset)
        lo == Components([i \in 1..n |->
                             FloorDiv(min_bound(volume.volume)[i], volume.cell_size)], n)
        hi == Components([i \in 1..n |->
                             CeilDiv(max_bound(volume.volume)[i], volume.cell_size)], n)
    IN IF \E i \in 1..n : lo[i] >= hi[i] THEN {}
       ELSE {pos \in Vectors(n, Min2(lo[1], lo[n])..Max2(hi[1], hi[n])) :
                \A i \in 1..n : lo[i] <= pos[i] /\ pos[i] < hi[i]}

\* s = distance(center) * sqrt(2) / cell_size for the cell pos
ScaledDistance(pos) ==
    FDiv(FMul(distance(volume.volume, CellCenter(pos, volume.cell_size)), SQRT_2),
         volume.cell_size)

\* Inside iff s < -1, Outside iff s > 1, Border otherwise
ThreeWay(x) ==
    IF FLt(x, 0 - One) THEN "Inside" ELSE IF FGt(x, One) THEN "Outside" ELSE "Border"

\* the cells of the box with the class c
CellsOfClass(c) == {pos \in GridBox : ThreeWay(ScaledDistance(pos)) = c}

\* the list cells holds exactly the elements of the set S, each once
ListsExactly(cells, S) ==
    /\ {cells[k] : k \in 1..Len(cells)} = S
    /\ Len(cells) = Cardinality(S)

\* C20: create_grid stores one classification for each cell of the integer box
\* [floor(min_bound / cell_size), ceil(max_bound / cell_size)), which is Inside
\* iff s < -1, Outside iff s > 1 and Border otherwise for the scaled distance s
\* of the cell's center; inside_cells lists exactly the Inside cells and
\* border_cells exactly the Border cells, each once in absolute coordinates
C20_CreateGridClassifies ==
    volume.status = "ok" =>
        /\ Len(volume.cells.data) = Cardinality(GridBox)
        /\ \A pos \in GridBox : GridIndexCell(volume, pos) = ThreeWay(ScaledDistance(pos))
        /\ ListsExactly(volume.inside_cells, CellsOfClass("Inside"))
        /\ ListsExactly(volume.border_cells, CellsOfClass("Border"))
        /\ \A k \in 1..Len(volume.inside_cells) :
              \A m \in 1..Len(volume.border_cells) :
                  volume.inside_cells[k] # volume.border_cells[m]

\* a grid with a Border cell at s = -1 and a Border cell at s = 1
C20_Witness ==
    /\ volume.status = "ok"
    /\ \E pos \in GridBox : ScaledDistance(pos) = 0 - One
    /\ \E pos \in GridBox : ScaledDistance(pos) = One
    /\ volume.inside_cells = <<>>

\* the multipliers k for which offset + k * size can lie in the box of cell
\* along axis i, with one to spare on either side
LatticeSteps(cell, size, offset, i) ==
    (FloorDiv(cell[i] * volume.cell_size - offset[i], size[i]) - 1)
        ..(CeilDiv((cell[i] + 1) * volume.cell_size - offset[i], size[i]) + 1)

\* the lattice points offset + k * size in the half-open box of cell
LatticeIn(cell, size, offset) ==
    LET n == Len(cell)
        ks == {k \in Vectors(n, UNION {LatticeSteps(cell, size, offset, i) : i \in 1..n}) :
                  \A i \in 1..n : k[i] \in LatticeSteps(cell, size, offset, i)}
    IN {p \in {[i \in 1..n |-> offset[i] + k[i] * size[i]] : k \in ks} : InCellBox(p, cell)}

\* the lattice points generate_grid(size, offset) is to emit
LatticeExpected(size, offset) ==
    UNION {LatticeIn(volume.inside_cells[c], size, offset) :
              c \in 1..Len(volume.inside_cells)}
    \cup UNION {{p \in LatticeIn(volume.border_cells[c], size, offset) :
                    contains(volume.volume, p)} : c \in 1..Len(volume.border_cells)}

\* generate_grid has just run with the arguments gen.args
GridGenerated == gen.op = "none" /\ gen.args # <<>> /\ volume.status = "ok"

ClosePairs ==
    {<<i, j>> \in (1..Len(points)) \X (1..Len(points)) :
        i # j /\ FLt(Norm(VSub(points[i], points[j])), 2 * radius)}

\* C22: when cell_size is at least 2 * radius, the scan of step_collisions
\* visits, for every pair of distinct points nearer than 2 * radius, each of the
\* two exactly once in the scan of the other
C22_ScanComplete ==
    [][(CollisionStepTaken /\ FLe(2 * radius, volume.cell_size)) =>
          \A pair \in ClosePairs :
              Occurrences(neighbors(volume, point_grid', points, pair[1] - 1), pair[2] - 1) = 1
      ]_vars

\* a collision step has found an overlap among three points hashed under
\* three different cells
C22_Witness ==
    /\ stepped.last = "collisions" /\ Len(points) = 3
    /\ Cardinality(DOMAIN point_grid) = 3
    /\ FGt(max_penetration, 0)

RECURSIVE DisplacementSum(_)
\* the sum of points'[i] - points[i] over the first n points
DisplacementSum(n) ==
    IF n = 0 THEN Repeat(Len(volume.offset), 0)
    ELSE VAdd(DisplacementSum(n - 1), VSub(points'[n], points[n]))

\* the scan of point i (1-based) over the hash of the step visits point j
Visits(i, j) == Occurrences(neighbors(volume, point_grid', points, i - 1), j - 1) > 0

\* C23: in step_collisions j is visited by i iff i is visited by j, the
\* correction i receives from j is the negation of the one j receives from i,
\* and the displacements of one step add up to the zero vector
C23_PairwiseSymmetry ==
    [][CollisionStepTaken =>
          /\ \A i, j \in 1..Len(points) :
                /\ Visits(i, j) <=> Visits(j, i)
                /\ (i # j /\ Visits(i, j)) =>
                      PairTerm(radius, points[i], points[j]).delta
                          = VScale(PairTerm(radius, points[j], points[i]).delta, 0 - One)
          /\ DisplacementSum(Len(points)) = Repeat(Len(volume.offset), 0)
      ]_vars

\* C24: step_collisions, step_boundary and solve complete without a failure
\* for every point set, points outside the grid's bounding box included
C24_StepsNeverFail == pc # Panic

\* sample_white accepts a draw d in the cell of index cell of the two lists
WhiteAccepts(cell, d) ==
    \/ cell < Len(volume.inside_cells)
    \/ contains(volume.volume,
                VAdd(d, CellOrigin(volume,
                        volume.border_cells[cell - Len(volume.inside_cells) + 1])))

\* some cell of the two lists has a draw that sample_white accepts
WhiteAcceptable ==
    \E cell \in 0..(AllowedCells(volume) - 1), d \in Draws(volume) : WhiteAccepts(cell, d)

\* C25: sample_white never loops on two empty lists, returns only a point it
\* has accepted, and under fair random choices returns whenever some inside
\* cell exists or some border cell has a drawable point that contains accepts
C25_SampleWhiteReturns ==
    /\ [](gen.op = "white" => AllowedCells(volume) > 0)
    /\ [](WhiteReturned =>
            \E d \in Draws(volume) :
                /\ WhiteAccepts(gen.cell, d)
                /\ emitted[1] = VAdd(d, CellOrigin(volume,
                       (volume.inside_cells \o volume.border_cells)[gen.cell + 1])))
    /\ (gen.op = "white" /\ WhiteAcceptable) ~> WhiteReturned

\* sample_white has returned although the cell it chose first is a border
\* cell in which no draw is accepted
C25_Witness ==
    /\ WhiteReturned
    /\ gen.first >= Len(volume.inside_cells)
    /\ \A d \in Draws(volume) : ~WhiteAccepts(gen.first, d)

\* the position looked up lies in the closed bounding box of the field
InClosedBox ==
    /\ looked.by \in {"point", "contains"}
    /\ \A i \in 1..Len(looked.point) :
         /\ FLe(min_bound(volume.volume)[i], looked.point[i])
         /\ FLe(looked.point[i], max_bound(volume.volume)[i])

\* C26: grid[p] and Sampler::contains(p) return a result for every position p
\* of the closed bounding box, positions on max_bound included: the cell
\* floor(p / cell_size) - offset is a cell of the array
C26_ClosedBoxLookup ==
    InClosedBox =>
        /\ looked.result # Panic
        /\ \A i \in 1..Len(looked.cell) :
             /\ looked.cell[i] >= volume.offset[i]
             /\ looked.cell[i] < volume.offset[i] + volume.cells.shape[i]

=============================================================================
